---- MODULE Spec2Model ----
(***************************************************************************)
(* Collaboration session registry and realtime gateway of                  *)
(* src/src/lib/collaboration/CollaborationManager.ts.                      *)
(*                                                                         *)
(* Node runs every socket handler on one thread: a handler runs from its   *)
(* start to its first await of a Prisma call without interruption, and     *)
(* resumes in a later task once the call has resolved or rejected.  Each   *)
(* action below is such an uninterrupted stretch of one handler.  An await *)
(* of an async method that contains no Prisma call (joinSession, the early *)
(* returns and throws of lockAsset and releaseLock) resumes in a microtask *)
(* before any other socket event and belongs to the same stretch.          *)
(***************************************************************************)
EXTENDS Integers, Sequences, FiniteSets, Bags, TLC

\* ------------------------------------------------------------ bounds ----
MaxEvents == 4      \* join, operation, request-lock and release-lock events
                    \* handled over a run (each socket disconnects once besides)

\* ------------------------------------------------------------ inputs ----
Conns   == {"c1", "c2"}          \* sockets
Users   == {"u1", "u2"}          \* rows of prisma.user
UserIds == Users \cup {"ux"}     \* ids a client may send; "ux" has no row
\* the ids each socket sends in its join events
ClientIds(c) == IF c = "c1" THEN {"u1"} ELSE {"u2", "ux"}
Assets  == {"a1", "a2"}
\* the assets each socket names in its join events
ClientAssets(c) == IF c = "c1" THEN Assets ELSE {"a1"}
None    == "none"                \* an unset closure variable (undefined)

LOCK_DURATION == 5 * 60 * 1000
Times == {0, LOCK_DURATION}      \* the instants the clock shows

\* prisma.user.name; null for u2, replaced by 'Anonymous' in the join handler
UserName(u) == IF u = "u1" THEN "Alice" ELSE "Anonymous"

\* error messages the handlers emit to the sender
LockConflict    == "Asset is locked by another user"
SessionNotFound == "Session not found"
NotLockOwner    == "Cannot release lock: not the lock owner"
UserNotFound    == "User not found"
PersistenceFailure == "prisma error"

NoLock   == [userId |-> None, until |-> 0]      \* session.locked undefined
NoOp     == [id |-> 0, userId |-> None, timestamp |-> 0]

EmptyMap == [x \in {} |-> x]
Put(map, k, v) == [x \in (DOMAIN map) \cup {k} |-> IF x = k THEN v ELSE map[x]]
Del(map, k)    == [x \in (DOMAIN map) \ {k} |-> map[x]]

VARIABLES
  now,          \* new Date() / Date.now(), in ms
  connStatus,   \* per socket: "open" until its disconnect, then "closed"
  userId,       \* per socket: closure variable userId
  sessionId,    \* per socket: closure variable sessionId
  sessions,     \* this.sessions: Map assetId -> CollaborationSession
  operations,   \* this.operations: Map assetId -> Operation[]
  assetLock,    \* prisma.assetLock rows, keyed by assetId
  assetHistory, \* prisma.assetHistory rows
  pending,      \* bag of handler continuations awaiting a Prisma call
  opCount,      \* operations accepted so far (gives each its identity)
  emitted,      \* per room: the 'operation' events broadcast to it, in order
  outcome,      \* the 'error' event the last handler stretch emitted, if any
  events,       \* client events handled so far
  inherited     \* assets whose assetLock row is older than their live session

vars == <<now, connStatus, userId, sessionId, sessions, operations, assetLock,
          assetHistory, pending, opCount, emitted, outcome, events, inherited>>

\* the state of VersionManager.ts: its two Prisma tables and its calls in flight
VARIABLES
  assetVersion, \* prisma.assetVersion rows, keyed by id
  assetBranch,  \* prisma.assetBranch rows
  vpending,     \* calls of the VersionManager suspended at an await
  vresult,      \* what the call that settled last returned or threw
  uuids,        \* how many ids uuidv4() has handed out
  vcalls        \* how many calls of the VersionManager have been made

vvars == <<assetVersion, assetBranch, vpending, vresult, uuids, vcalls>>

NoResult == [kind |-> None, status |-> None, value |-> <<>>]

Cont(kind, c, u, a, op, until) ==
  [kind |-> kind, conn |-> c, userId |-> u, assetId |-> a, op |-> op, until |-> until]

\* socket.emit('error', { message })
Error(event, c, message) == [event |-> event, conn |-> c, message |-> message]
NoError == Error("none", None, "none")

Await(r)  == pending (+) SetToBag({r})
Resume(r) == pending (-) SetToBag({r})

Init ==
  /\ now = 0
  /\ connStatus = [c \in Conns |-> "open"]
  /\ userId = [c \in Conns |-> None]
  /\ sessionId = [c \in Conns |-> None]
  /\ sessions = EmptyMap
  /\ operations = EmptyMap
  /\ assetLock = EmptyMap
  /\ assetHistory = {}
  /\ pending = EmptyBag
  /\ opCount = 0
  /\ emitted = [a \in Assets |-> <<>>]
  /\ outcome = NoError
  /\ events = 0
  /\ inherited = {}
  /\ assetVersion = EmptyMap
  /\ assetBranch = {}
  /\ vpending = EmptyBag
  /\ vresult = NoResult
  /\ uuids = 0
  /\ vcalls = 0

\* ------------------------------------------------- registry methods ----

\* the membership test comparing the display name with the id
HasUserByName(session, uid) == \E i \in DOMAIN session.users : session.users[i].name = uid

HasUser(session, uid) == \E i \in DOMAIN session.users : session.users[i].id = uid

NewSession == [users |-> <<>>, lastModified |-> now, locked |-> NoLock]

\* joinSession(sessionId, user): the maps after the call
joinSessionSessions(sid, uid) ==
  LET session == IF sid \in DOMAIN sessions THEN sessions[sid] ELSE NewSession
      joined  == IF HasUser(session, uid)
                   THEN session
                   ELSE [session EXCEPT !.users =
                           Append(@, [id |-> uid, name |-> UserName(uid)])]
  IN Put(sessions, sid, joined)

joinSessionOperations(sid) ==
  IF sid \in DOMAIN sessions THEN operations ELSE Put(operations, sid, <<>>)

\* leaveSession(sessionId, userId): the maps after the call
RemoveUser(users, uid) ==
  LET Keep(u) == u.id # uid IN SelectSeq(users, Keep)

\* leaveSession without the removal of a session left empty
leaveSessionSessionsKeepEmpty(sid, uid) ==
  IF sid \notin DOMAIN sessions THEN sessions
  ELSE [sessions EXCEPT ![sid].users = RemoveUser(@, uid)]

\* leaveSession that takes the leaver's lock with it
leaveSessionSessionsUnlock(sid, uid) ==
  IF sid \notin DOMAIN sessions THEN sessions
  ELSE LET rest == RemoveUser(sessions[sid].users, uid)
       IN IF Len(rest) = 0 THEN Del(sessions, sid)
          ELSE [sessions EXCEPT ![sid].users = rest,
                                ![sid].locked = IF @.userId = uid THEN NoLock ELSE @]

leaveSessionSessions(sid, uid) ==
  IF sid \notin DOMAIN sessions THEN sessions
  ELSE LET rest == RemoveUser(sessions[sid].users, uid)
       IN IF Len(rest) = 0 THEN Del(sessions, sid)
          ELSE [sessions EXCEPT ![sid].users = rest]

leaveSessionOperations(sid, uid) ==
  IF sid \notin DOMAIN sessions THEN operations
  ELSE IF Len(RemoveUser(sessions[sid].users, uid)) = 0
         THEN Del(operations, sid) ELSE operations

\* getSessionState(sessionId)
getSessionState(sid) ==
  [session    |-> IF sid \in DOMAIN sessions THEN sessions[sid] ELSE NewSession,
   live       |-> sid \in DOMAIN sessions,
   operations |-> IF sid \in DOMAIN operations THEN operations[sid] ELSE <<>>]

\* getActiveUsers(assetId)
getActiveUsers(aid) == IF aid \in DOMAIN sessions THEN sessions[aid].users ELSE <<>>

\* canUserEdit without the comparison of the holder with the caller
canUserEditAnyHolder(sid, uid) == sid \in DOMAIN sessions

\* canUserEdit without the lazy expiry of the lock
canUserEditNoExpiry(sid, uid) ==
  IF sid \notin DOMAIN sessions THEN FALSE
  ELSE IF sessions[sid].locked = NoLock THEN TRUE
  ELSE sessions[sid].locked.userId = uid

\* canUserEdit(sessionId, userId): the value returned
canUserEdit(sid, uid) ==
  IF sid \notin DOMAIN sessions THEN FALSE
  ELSE IF sessions[sid].locked = NoLock THEN TRUE
  ELSE IF sessions[sid].locked.until <= now THEN TRUE
  ELSE sessions[sid].locked.userId = uid

\* canUserEdit: it deletes session.locked when the lock has expired
canUserEditSessions(sid) ==
  IF /\ sid \in DOMAIN sessions
     /\ sessions[sid].locked # NoLock
     /\ sessions[sid].locked.until <= now
    THEN [sessions EXCEPT ![sid].locked = NoLock]
    ELSE sessions

\* the test of lockAsset with its comparison turned round
LockHeldInverted(session) == session.locked # NoLock /\ session.locked.until < now

\* lockAsset: the test `session.locked && session.locked.until > new Date()`
LockHeld(session) == session.locked # NoLock /\ session.locked.until > now

\* lockAsset without the early return for the holder: the window restarts
lockAssetCheckRefresh(sid, uid) ==
  IF sid \notin DOMAIN sessions THEN SessionNotFound
  ELSE IF LockHeld(sessions[sid]) /\ sessions[sid].locked.userId # uid THEN LockConflict
  ELSE "grant"

\* lockAsset, up to the upsert: what it throws, "held" for the early return,
\* "grant" when it goes on to set session.locked
lockAssetCheck(sid, uid) ==
  IF sid \notin DOMAIN sessions THEN SessionNotFound
  ELSE IF LockHeld(sessions[sid])
    THEN IF sessions[sid].locked.userId # uid THEN LockConflict ELSE "held"
  ELSE "grant"

\* releaseLock without the comparison of the holder with the caller
releaseLockCheckAnyCaller(sid, uid) ==
  IF sid \notin DOMAIN sessions THEN SessionNotFound
  ELSE IF sessions[sid].locked = NoLock THEN NotLockOwner
  ELSE "release"

\* releaseLock, up to the delete: what it throws, "release" otherwise
releaseLockCheck(sid, uid) ==
  IF sid \notin DOMAIN sessions THEN SessionNotFound
  ELSE IF sessions[sid].locked = NoLock \/ sessions[sid].locked.userId # uid
    THEN NotLockOwner
  ELSE "release"

\* ------------------------------------------------- socket handlers ----

\* the conjunct every client event shares: the socket is connected
Handles(c) ==
  /\ connStatus[c] = "open"
  /\ events < MaxEvents
  /\ events' = events + 1

\* socket.on('join'), up to `await this.prisma.user.findUnique`
Join(c, u, a) ==
  /\ Handles(c)
  /\ u \in ClientIds(c)
  /\ a \in ClientAssets(c)
  /\ userId' = [userId EXCEPT ![c] = u]
  /\ sessionId' = [sessionId EXCEPT ![c] = a]
  /\ pending' = Await(Cont("join", c, u, None, NoOp, 0))
  /\ outcome' = NoError
  /\ UNCHANGED <<now, connStatus, sessions, operations, assetLock,
                 assetHistory, opCount, emitted, inherited>>

\* socket.on('join'), from the resolution of findUnique to the end.  The
\* user looked up is the one this join named; sessionId is read again from
\* the closure.  A rejected lookup ends the handler (it has no try/catch).
JoinResume(r, ok) ==
  /\ r \in BagToSet(pending) /\ r.kind = "join"
  /\ pending' = Resume(r)
  /\ IF ~ok
       THEN /\ outcome' = NoError
            /\ UNCHANGED <<sessions, operations, inherited>>
     ELSE IF r.userId \notin Users
       THEN /\ outcome' = Error("join", r.conn, UserNotFound)
            /\ UNCHANGED <<sessions, operations, inherited>>
     ELSE LET sid == sessionId[r.conn]
          IN /\ sessions' = joinSessionSessions(sid, r.userId)
             /\ operations' = joinSessionOperations(sid)
             /\ inherited' = IF sid \notin DOMAIN sessions /\ sid \in DOMAIN assetLock
                               THEN inherited \cup {sid} ELSE inherited
             /\ outcome' = NoError
  /\ UNCHANGED <<now, connStatus, userId, sessionId, assetLock, assetHistory,
                 opCount, emitted, events>>

\* socket.on('operation'), up to `await this.prisma.assetHistory.create`
\* inside applyOperation
Operation(c) ==
  /\ Handles(c)
  /\ IF sessionId[c] = None \/ userId[c] = None
       THEN /\ outcome' = NoError
            /\ UNCHANGED <<sessions, operations, pending, opCount, emitted>>
     ELSE IF ~canUserEdit(sessionId[c], userId[c])
       THEN /\ outcome' = Error("operation", c, LockConflict)
            /\ sessions' = canUserEditSessions(sessionId[c])
            /\ UNCHANGED <<operations, pending, opCount, emitted>>
     ELSE LET sid == sessionId[c]
              operation == [id |-> opCount + 1, userId |-> userId[c], timestamp |-> now]
              checked == canUserEditSessions(sid)
          IN /\ opCount' = opCount + 1
             /\ outcome' = NoError
             /\ IF sid \notin DOMAIN operations
                  THEN \* applyOperation returns at once; the broadcast follows
                       /\ sessions' = checked
                       /\ emitted' = [emitted EXCEPT ![sid] = Append(@, operation.id)]
                       /\ UNCHANGED <<operations, pending>>
                  ELSE /\ operations' = [operations EXCEPT ![sid] = Append(@, operation)]
                       /\ sessions' = [checked EXCEPT ![sid].lastModified = operation.timestamp]
                       /\ pending' = Await(Cont("operation", c, userId[c], sid, operation, 0))
                       /\ UNCHANGED emitted
  /\ UNCHANGED <<now, connStatus, userId, sessionId, assetLock, assetHistory,
                 inherited>>

\* the operation handler with the broadcast outside the try block: it is
\* sent whether or not assetHistory.create resolved
OperationResumeBroadcastAlways(r, ok) ==
  /\ r \in BagToSet(pending) /\ r.kind = "operation"
  /\ pending' = Resume(r)
  /\ emitted' = [emitted EXCEPT ![sessionId[r.conn]] = Append(@, r.op.id)]
  /\ IF ok
       THEN /\ assetHistory' = assetHistory \cup {[assetId |-> r.assetId, op |-> r.op]}
            /\ outcome' = NoError
       ELSE /\ outcome' = Error("operation", r.conn, PersistenceFailure)
            /\ UNCHANGED assetHistory
  /\ UNCHANGED <<now, connStatus, userId, sessionId, sessions, operations,
                 assetLock, opCount, events, inherited>>

\* socket.on('operation'), from the end of assetHistory.create: the
\* broadcast goes to the room the closure's sessionId names at that time
OperationResume(r, ok) ==
  /\ r \in BagToSet(pending) /\ r.kind = "operation"
  /\ pending' = Resume(r)
  /\ IF ok
       THEN /\ assetHistory' = assetHistory \cup {[assetId |-> r.assetId, op |-> r.op]}
            /\ emitted' = [emitted EXCEPT ![sessionId[r.conn]] = Append(@, r.op.id)]
            /\ outcome' = NoError
       ELSE /\ outcome' = Error("operation", r.conn, PersistenceFailure)
            /\ UNCHANGED <<assetHistory, emitted>>
  /\ UNCHANGED <<now, connStatus, userId, sessionId, sessions, operations,
                 assetLock, opCount, events, inherited>>

\* socket.on('request-lock'), up to `await this.prisma.assetLock.upsert`
\* inside lockAsset
RequestLock(c) ==
  /\ Handles(c)
  /\ IF sessionId[c] = None \/ userId[c] = None
       THEN /\ outcome' = NoError
            /\ UNCHANGED <<sessions, pending>>
     ELSE LET sid == sessionId[c]
              check == lockAssetCheck(sid, userId[c])
              until == now + LOCK_DURATION
          IN IF check = "grant"
               THEN /\ sessions' = [sessions EXCEPT ![sid].locked =
                                      [userId |-> userId[c], until |-> until]]
                    /\ pending' = Await(Cont("request-lock", c, userId[c], sid, NoOp, until))
                    /\ outcome' = NoError
             ELSE IF check = "held"
               THEN /\ outcome' = NoError
                    /\ UNCHANGED <<sessions, pending>>
             ELSE /\ outcome' = Error("request-lock", c, check)
                  /\ UNCHANGED <<sessions, pending>>
  /\ UNCHANGED <<now, connStatus, userId, sessionId, operations, assetLock,
                 assetHistory, opCount, emitted, inherited>>

\* socket.on('request-lock'), from the end of assetLock.upsert
RequestLockResume(r, ok) ==
  /\ r \in BagToSet(pending) /\ r.kind = "request-lock"
  /\ pending' = Resume(r)
  /\ IF ok
       THEN /\ assetLock' = Put(assetLock, r.assetId,
                                [userId |-> r.userId, expiresAt |-> r.until])
            /\ inherited' = inherited \ {r.assetId}
            /\ outcome' = NoError
       ELSE /\ outcome' = Error("request-lock", r.conn, PersistenceFailure)
            /\ UNCHANGED <<assetLock, inherited>>
  /\ UNCHANGED <<now, connStatus, userId, sessionId, sessions, operations,
                 assetHistory, opCount, emitted, events>>

\* socket.on('release-lock'), up to `await this.prisma.assetLock.delete`
\* inside releaseLock
ReleaseLock(c) ==
  /\ Handles(c)
  /\ IF sessionId[c] = None \/ userId[c] = None
       THEN /\ outcome' = NoError
            /\ UNCHANGED <<sessions, pending>>
     ELSE LET sid == sessionId[c]
              check == releaseLockCheck(sid, userId[c])
          IN IF check = "release"
               THEN /\ sessions' = [sessions EXCEPT ![sid].locked = NoLock]
                    /\ pending' = Await(Cont("release-lock", c, userId[c], sid, NoOp, 0))
                    /\ outcome' = NoError
               ELSE /\ outcome' = Error("release-lock", c, check)
                    /\ UNCHANGED <<sessions, pending>>
  /\ UNCHANGED <<now, connStatus, userId, sessionId, operations, assetLock,
                 assetHistory, opCount, emitted, inherited>>

\* socket.on('release-lock'), from the end of assetLock.delete, which
\* rejects when the row does not exist
ReleaseLockResume(r, ok) ==
  /\ r \in BagToSet(pending) /\ r.kind = "release-lock"
  /\ ok => r.assetId \in DOMAIN assetLock
  /\ pending' = Resume(r)
  /\ IF ok
       THEN /\ assetLock' = Del(assetLock, r.assetId)
            /\ inherited' = inherited \ {r.assetId}
            /\ outcome' = NoError
       ELSE /\ outcome' = Error("release-lock", r.conn, PersistenceFailure)
            /\ UNCHANGED <<assetLock, inherited>>
  /\ UNCHANGED <<now, connStatus, userId, sessionId, sessions, operations,
                 assetHistory, opCount, emitted, events>>

\* socket.on('disconnect')
Disconnect(c) ==
  /\ connStatus[c] = "open"
  /\ connStatus' = [connStatus EXCEPT ![c] = "closed"]
  /\ IF sessionId[c] # None /\ userId[c] # None
       THEN /\ sessions' = leaveSessionSessions(sessionId[c], userId[c])
            /\ operations' = leaveSessionOperations(sessionId[c], userId[c])
       ELSE UNCHANGED <<sessions, operations>>
  /\ outcome' = NoError
  /\ UNCHANGED <<now, userId, sessionId, assetLock, assetHistory, pending,
                 opCount, emitted, events, inherited>>

\* the clock moves on to a later instant
Tick(t) ==
  /\ t > now
  /\ now' = t
  /\ UNCHANGED <<connStatus, userId, sessionId, sessions, operations, assetLock,
                 assetHistory, pending, opCount, emitted, outcome, events,
                 inherited>>

Next ==
  \/ \E c \in Conns, u \in UserIds, a \in Assets : Join(c, u, a) /\ UNCHANGED vvars
  \/ \E r \in BagToSet(pending), ok \in BOOLEAN : JoinResume(r, ok) /\ UNCHANGED vvars
  \/ \E c \in Conns : Operation(c) /\ UNCHANGED vvars
  \/ \E r \in BagToSet(pending), ok \in BOOLEAN : OperationResume(r, ok) /\ UNCHANGED vvars
  \/ \E c \in Conns : RequestLock(c) /\ UNCHANGED vvars
  \/ \E r \in BagToSet(pending), ok \in BOOLEAN : RequestLockResume(r, ok) /\ UNCHANGED vvars
  \/ \E c \in Conns : ReleaseLock(c) /\ UNCHANGED vvars
  \/ \E r \in BagToSet(pending), ok \in BOOLEAN : ReleaseLockResume(r, ok) /\ UNCHANGED vvars
  \/ \E c \in Conns : Disconnect(c) /\ UNCHANGED vvars
  \/ \E t \in Times : Tick(t) /\ UNCHANGED vvars

Spec == Init /\ [][Next]_<<vars, vvars>>

\* ------------------------------------------------------ properties ----

\* the socket's closure variables are both set, so its handlers do not return at once
Ready(c) == sessionId[c] # None /\ userId[c] # None

\* the user holding the session's lock while its expiry is still in the
\* future; None when there is no session, no lock, or the lock has expired
ActiveHolder(sid) ==
  IF /\ sid \in DOMAIN sessions
     /\ sessions[sid].locked # NoLock
     /\ sessions[sid].locked.until > now
    THEN sessions[sid].locked.userId ELSE None

\* the user whose lock on the session has reached its expiry; None otherwise
ExpiredHolder(sid) ==
  IF /\ sid \in DOMAIN sessions
     /\ sessions[sid].locked # NoLock
     /\ sessions[sid].locked.until <= now
    THEN sessions[sid].locked.userId ELSE None

PendingOf(kind, sid) == {r \in BagToSet(pending) : r.kind = kind /\ r.assetId = sid}

\* C1: a session's lock names at most one holder, and a request-lock by a
\* user other than the holder of an unexpired lock is answered with
\* LockConflict and leaves the lock (holder and expiry) as it was.
C1_LockExclusive ==
  [][/\ \A a \in DOMAIN sessions' :
          \/ sessions'[a].locked = NoLock
          \/ /\ sessions'[a].locked.userId \in UserIds
             /\ sessions'[a].locked.until \in {t + LOCK_DURATION : t \in Times}
     /\ \A c \in Conns :
          (/\ RequestLock(c)
           /\ Ready(c)
           /\ ActiveHolder(sessionId[c]) \notin {None, userId[c]})
          => /\ outcome' = Error("request-lock", c, LockConflict)
             /\ sessions'[sessionId[c]].locked = sessions[sessionId[c]].locked]_vars

\* C1 witness: a request-lock has just been refused while another user
\* holds the unexpired lock
C1_Witness ==
  \E c \in Conns :
    /\ outcome = Error("request-lock", c, LockConflict)
    /\ Ready(c)
    /\ ActiveHolder(sessionId[c]) \notin {None, userId[c]}

\* C2: an operation submitted while another user holds an unexpired lock is
\* answered with LockConflict; nothing is appended to the log, no audit row
\* is written or requested, nothing is broadcast and the session
\* (lastModified included) is unchanged.
C2_LockedOutOperation ==
  [][\A c \in Conns :
       (/\ Operation(c)
        /\ Ready(c)
        /\ ActiveHolder(sessionId[c]) \notin {None, userId[c]})
       => /\ outcome' = Error("operation", c, LockConflict)
          /\ UNCHANGED <<operations, assetHistory, emitted, pending, sessions>>]_vars

\* C2 witness: an operation has just been refused while another user holds
\* the unexpired lock
C2_Witness ==
  \E c \in Conns :
    /\ outcome = Error("operation", c, LockConflict)
    /\ Ready(c)
    /\ ActiveHolder(sessionId[c]) \notin {None, userId[c]}

\* C3: once a lock's expiry is not in the future it counts as absent: an
\* operation of another member is accepted (appended to the log, no error),
\* and a request-lock by another user makes that user the holder until
\* now + LOCK_DURATION without an error, the old holder never releasing.
C3_ExpiredLockIsAbsent ==
  [][\A c \in Conns :
       /\ (/\ Operation(c)
           /\ Ready(c)
           /\ ExpiredHolder(sessionId[c]) \notin {None, userId[c]})
          => /\ outcome' = NoError
             /\ Len(operations'[sessionId[c]]) = Len(operations[sessionId[c]]) + 1
             /\ operations'[sessionId[c]][Len(operations'[sessionId[c]])].userId = userId[c]
       /\ (/\ RequestLock(c)
           /\ Ready(c)
           /\ ExpiredHolder(sessionId[c]) \notin {None, userId[c]})
          => /\ outcome' = NoError
             /\ sessions'[sessionId[c]].locked =
                  [userId |-> userId[c], until |-> now + LOCK_DURATION]]_vars

\* C3 witness: the persisted row still names the old holder, its expiry has
\* passed, and another user now holds a fresh lock on the session
C3_Witness ==
  \E a \in (DOMAIN sessions) \cap (DOMAIN assetLock) :
    /\ assetLock[a].expiresAt <= now
    /\ sessions[a].locked # NoLock
    /\ sessions[a].locked.userId # assetLock[a].userId
    /\ sessions[a].locked.until = now + LOCK_DURATION

\* C4: within one session no operation is appended to the log while an
\* earlier operation of that session still awaits its audit row.
C4_OneOperationAtATime ==
  [][\A c \in Conns :
       (Operation(c) /\ operations' # operations)
       => PendingOf("operation", sessionId[c]) = {}]_vars

LogIds(a) == {operations[a][k].id : k \in DOMAIN operations[a]}

\* C5: the operations of an asset are broadcast to its room in the order of
\* the asset's log (ids are given in arrival order).
C5_BroadcastInLogOrder ==
  \A a \in DOMAIN operations :
    \A i, j \in DOMAIN emitted[a] :
      (i < j /\ emitted[a][i] \in LogIds(a) /\ emitted[a][j] \in LogIds(a))
      => emitted[a][i] < emitted[a][j]

\* C6: every operation broadcast has its audit row in assetHistory, and a
\* rejected assetHistory.create broadcasts nothing and sends the submitter
\* an error.
C6_BroadcastAfterPersist ==
  [][/\ \A a \in Assets : \A i \in DOMAIN emitted'[a] :
          \E row \in assetHistory' : row.op.id = emitted'[a][i]
     /\ \A r \in BagToSet(pending) :
          OperationResume(r, FALSE)
          => /\ emitted' = emitted
             /\ outcome' = Error("operation", r.conn, PersistenceFailure)]_vars

\* C6 witness: an operation's audit row was rejected: the submitter has the
\* error and no room has received the operation
C6_Witness ==
  /\ outcome.event = "operation"
  /\ outcome.message = PersistenceFailure
  /\ opCount > 0
  /\ \A a \in Assets : emitted[a] = <<>>

\* C7: a rejected Prisma call leaves no trace in the session: every
\* operation of a log has its audit row or still awaits it, and every lock
\* held has its assetLock row or still awaits it.
C7_FailedCallLeavesNoTrace ==
  /\ \A a \in DOMAIN operations : \A k \in DOMAIN operations[a] :
       \/ \E row \in assetHistory : row.op = operations[a][k]
       \/ \E r \in PendingOf("operation", a) : r.op = operations[a][k]
  /\ \A a \in DOMAIN sessions :
       sessions[a].locked # NoLock
       => \/ /\ a \in DOMAIN assetLock
             /\ assetLock[a].userId = sessions[a].locked.userId
             /\ assetLock[a].expiresAt = sessions[a].locked.until
          \/ \E r \in PendingOf("request-lock", a) :
               r.userId = sessions[a].locked.userId /\ r.until = sessions[a].locked.until

\* C8: while an assetLock row that outlived the asset's previous session is
\* unexpired, an operation or request-lock of any user but the row's holder
\* is answered with LockConflict.
C8_PersistedLockSurvives ==
  [][\A c \in Conns :
       (/\ Operation(c) \/ RequestLock(c)
        /\ Ready(c)
        /\ sessionId[c] \in inherited
        /\ sessionId[c] \in DOMAIN assetLock
        /\ assetLock[sessionId[c]].expiresAt > now
        /\ assetLock[sessionId[c]].userId # userId[c])
       => outcome'.message = LockConflict]_vars

\* C9: an operation is appended, and a lock granted, only for a user who is
\* a member of the session at that moment.
C9_MembersOnly ==
  [][\A c \in Conns :
       (\/ Operation(c) /\ operations' # operations
        \/ RequestLock(c) /\ pending' # pending)
       => /\ sessionId[c] \in DOMAIN sessions
          /\ \E i \in DOMAIN sessions[sessionId[c]].users :
               sessions[sessionId[c]].users[i].id = userId[c]]_vars

\* C10: once a socket has disconnected and none of its handlers is still
\* awaiting a call, the users it joined as are members of no session.
C10_GoneAfterDisconnect ==
  \A c \in Conns :
    (connStatus[c] = "closed" /\ \A r \in BagToSet(pending) : r.conn # c)
    => \A a \in DOMAIN sessions : \A i \in DOMAIN sessions[a].users :
         sessions[a].users[i].id \notin ClientIds(c)

MemberIds(a) == {sessions[a].users[i].id : i \in DOMAIN sessions[a].users}

\* C11: a join for an asset without a live session creates one whose only
\* member is the joiner, with an empty operation buffer; when a leave
\* removes the last member, the session and its buffer are removed and
\* getActiveUsers of the asset is empty.
C11_SessionLifecycle ==
  [][/\ \A r \in BagToSet(pending) :
          (/\ JoinResume(r, TRUE)
           /\ r.userId \in Users
           /\ sessionId[r.conn] \notin DOMAIN sessions)
          => /\ sessionId[r.conn] \in DOMAIN sessions'
             /\ Len(sessions'[sessionId[r.conn]].users) = 1
             /\ sessions'[sessionId[r.conn]].users[1].id = r.userId
             /\ operations'[sessionId[r.conn]] = <<>>
     /\ \A c \in Conns :
          (/\ Disconnect(c)
           /\ Ready(c)
           /\ sessionId[c] \in DOMAIN sessions
           /\ MemberIds(sessionId[c]) = {userId[c]})
          => /\ sessionId[c] \notin DOMAIN sessions'
             /\ sessionId[c] \notin DOMAIN operations'
             /\ getActiveUsers(sessionId[c])' = <<>>]_vars

\* C11 witness: an asset whose session took an operation has no session any
\* more after its socket disconnected, and getActiveUsers of it is empty
C11_Witness ==
  \E c \in Conns :
    /\ connStatus[c] = "closed"
    /\ Ready(c)
    /\ \E row \in assetHistory : row.assetId = sessionId[c] /\ row.op.userId = userId[c]
    /\ sessionId[c] \notin DOMAIN sessions
    /\ sessionId[c] \notin DOMAIN operations
    /\ getActiveUsers(sessionId[c]) = <<>>

\* C12: the member ids of a session are pairwise distinct, and a join of a
\* user who is a member already changes neither the member list nor the
\* lock nor the operation log.
C12_JoinIdempotent ==
  [][/\ \A a \in DOMAIN sessions' :
          \A i, j \in DOMAIN sessions'[a].users :
            sessions'[a].users[i].id = sessions'[a].users[j].id => i = j
     /\ \A r \in BagToSet(pending) :
          (/\ JoinResume(r, TRUE)
           /\ sessionId[r.conn] \in DOMAIN sessions
           /\ r.userId \in MemberIds(sessionId[r.conn]))
          => UNCHANGED <<sessions, operations>>]_vars

\* C12 witness: a member of a session has sent join for it again and the
\* lookup of that join is about to resume
C12_Witness ==
  \E r \in BagToSet(pending) :
    /\ r.kind = "join"
    /\ sessionId[r.conn] \in DOMAIN sessions
    /\ r.userId \in MemberIds(sessionId[r.conn])
    /\ events >= 2

\* C13: release-lock by the holder removes the lock without an error and
\* the resolved delete removes the assetLock row; with no lock on the
\* session a request-lock of any user is granted; release-lock by anyone
\* else, or with no lock, is answered NotLockOwner and changes no state.
C13_ReleaseLock ==
  [][/\ \A c \in Conns :
          /\ (/\ ReleaseLock(c)
              /\ Ready(c)
              /\ sessionId[c] \in DOMAIN sessions
              /\ sessions[sessionId[c]].locked # NoLock
              /\ sessions[sessionId[c]].locked.userId = userId[c])
             => /\ sessions'[sessionId[c]].locked = NoLock
                /\ outcome' = NoError
                /\ PendingOf("release-lock", sessionId[c])' # {}
          /\ (/\ ReleaseLock(c)
              /\ Ready(c)
              /\ sessionId[c] \in DOMAIN sessions
              /\ \/ sessions[sessionId[c]].locked = NoLock
                 \/ sessions[sessionId[c]].locked.userId # userId[c])
             => /\ outcome' = Error("release-lock", c, NotLockOwner)
                /\ UNCHANGED <<sessions, operations, assetLock, assetHistory,
                               pending, emitted>>
          /\ (/\ RequestLock(c)
              /\ Ready(c)
              /\ sessionId[c] \in DOMAIN sessions
              /\ sessions[sessionId[c]].locked = NoLock)
             => /\ sessions'[sessionId[c]].locked.userId = userId[c]
                /\ outcome' = NoError
     /\ \A r \in BagToSet(pending) :
          ReleaseLockResume(r, TRUE) => r.assetId \notin DOMAIN assetLock']_vars

\* C13 witness: the holder's release-lock has removed the lock of a session
\* that has another member, and the delete of its row is under way
C13_Witness ==
  \E a \in (DOMAIN sessions) \cap (DOMAIN assetLock) :
    /\ sessions[a].locked = NoLock
    /\ \E r \in PendingOf("release-lock", a) : r.userId = assetLock[a].userId
    /\ MemberIds(a) \ {assetLock[a].userId} # {}

\* C14: release-lock by the former holder of a lock whose expiry has passed
\* is answered NotLockOwner, as when there is no lock.
C14_ExpiredRelease ==
  [][\A c \in Conns :
       (/\ ReleaseLock(c)
        /\ Ready(c)
        /\ ExpiredHolder(sessionId[c]) = userId[c])
       => /\ outcome' = Error("release-lock", c, NotLockOwner)
          /\ sessions' = sessions]_vars

\* C15: request-lock by the holder of an unexpired lock changes neither
\* holder nor expiry, writes no row and reports no error; a lock changes
\* under request-lock only when it was absent or expired, and then runs
\* until now + LOCK_DURATION.
C15_HolderRequestIsNoOp ==
  [][\A c \in Conns :
       /\ (/\ RequestLock(c)
           /\ Ready(c)
           /\ ActiveHolder(sessionId[c]) = userId[c])
          => /\ outcome' = NoError
             /\ UNCHANGED <<sessions, pending, assetLock>>
       /\ (RequestLock(c) /\ pending' # pending)
          => /\ ActiveHolder(sessionId[c]) = None
             /\ sessions'[sessionId[c]].locked =
                  [userId |-> userId[c], until |-> now + LOCK_DURATION]]_vars

\* C15 witness: the user whose row has expired holds the lock again, for a
\* fresh window
C15_Witness ==
  \E a \in (DOMAIN sessions) \cap (DOMAIN assetLock) :
    /\ assetLock[a].expiresAt <= now
    /\ sessions[a].locked.userId = assetLock[a].userId
    /\ sessions[a].locked.until = now + LOCK_DURATION

\* C16: an operation, request-lock or release-lock for an asset without a
\* live session is answered SessionNotFound and changes no state.
C16_SessionNotFound ==
  [][\A c \in Conns :
       (/\ Operation(c) \/ RequestLock(c) \/ ReleaseLock(c)
        /\ Ready(c)
        /\ sessionId[c] \notin DOMAIN sessions)
       => /\ outcome'.message = SessionNotFound
          /\ UNCHANGED <<sessions, operations, assetLock, assetHistory,
                         pending, emitted>>]_vars

\* ==================================================== VersionManager ====

\* at most this many changes in one version handed to createVersion
MaxChanges == 2

Undefined == "<undefined>"

Paths == {"/a.txt", "/b.txt"}

\* a member of an object; Undefined when the object has no such member
Get(obj, key) == IF key \in DOMAIN obj THEN obj[key] ELSE Undefined

\* the Change objects callers pass: on /a.txt every type, with a content that
\* is given, differs, or is left out; on /b.txt an add and a delete
Changes ==
  {[type |-> "add", path |-> "/a.txt", content |-> "hello"],
   [type |-> "add", path |-> "/a.txt", content |-> "world"],
   [type |-> "add", path |-> "/a.txt"],
   [type |-> "modify", path |-> "/a.txt", content |-> "world", previousContent |-> "hello"],
   [type |-> "delete", path |-> "/a.txt", previousContent |-> "hello"],
   [type |-> "add", path |-> "/b.txt", content |-> "hello"],
   [type |-> "delete", path |-> "/b.txt", previousContent |-> "world"]}

ChangeLists == UNION {[1..n -> Changes] : n \in 0..MaxChanges}

\* JSON.stringify of a Change: the text is the set of its "key": value
\* members; a member whose value is undefined is left out
stringifyChange(change) ==
  {<<key, change[key]>> : key \in {k \in DOMAIN change : k = "metadata" \/ change[k] # Undefined}}

JSONstringify(changes) == [i \in DOMAIN changes |-> stringifyChange(changes[i])]

\* JSON.parse: the object whose members are the text's members
parseChange(text) ==
  [key \in {m[1] : m \in text} |-> (CHOOSE m \in text : m[1] = key)[2]]

JSONparse(text) == [i \in DOMAIN text |-> parseChange(text[i])]

\* array.find(c => c.path === path): the first match, Undefined without one
find(changes, path) ==
  IF \E i \in DOMAIN changes : changes[i].path = path
    THEN changes[CHOOSE i \in DOMAIN changes :
                   /\ changes[i].path = path
                   /\ \A j \in 1..(i - 1) : changes[j].path # path]
    ELSE Undefined

\* the iteration order of new Set(array): first occurrences, in order
RECURSIVE SetOrder(_)
SetOrder(seq) ==
  IF seq = <<>> THEN <<>>
  ELSE LET front == SetOrder(SubSeq(seq, 1, Len(seq) - 1))
           last  == seq[Len(seq)]
       IN IF \E i \in DOMAIN front : front[i] = last THEN front
          ELSE Append(front, last)

\* value || ''
OrEmpty(value) == IF value = Undefined THEN "" ELSE value

\* diff_main followed by diff_cleanupSemantic, for texts with no common
\* run worth keeping: the old text deleted, the new one inserted
diff_main(text1, text2) ==
  (IF text1 = "" THEN <<>> ELSE <<<<-1, text1>>>>) \o
  (IF text2 = "" THEN <<>> ELSE <<<<1, text2>>>>)

\* what findUnique resolves with when no row has the id
Null == [id |-> None]

HasPath(changes, path) == \E i \in DOMAIN changes : changes[i].path = path

PathsOf(changes) == [i \in DOMAIN changes |-> changes[i].path]

\* getVersion that answers an id without a row with the oldest row
getVersionOrOldest(versionId) ==
  IF versionId \in DOMAIN assetVersion
    THEN [assetVersion[versionId] EXCEPT !.changes = JSONparse(@)]
  ELSE IF 1 \in DOMAIN assetVersion
    THEN [assetVersion[1] EXCEPT !.changes = JSONparse(@)]
  ELSE Null

\* getVersion: the row with its changes parsed, or null
getVersion(versionId) ==
  IF versionId \notin DOMAIN assetVersion THEN Null
  ELSE [assetVersion[versionId] EXCEPT !.changes = JSONparse(@)]

\* the loop body of compareVersions that reports a modify with the two
\* contents in each other's place
compareAtSwapped(changes1, changes2, path) ==
  IF ~HasPath(changes1, path)
    THEN <<[type |-> "add", path |-> path,
            content |-> Get(find(changes2, path), "content")]>>
  ELSE IF ~HasPath(changes2, path)
    THEN <<[type |-> "delete", path |-> path,
            previousContent |-> Get(find(changes1, path), "content")]>>
  ELSE IF Get(find(changes1, path), "content") # Get(find(changes2, path), "content")
    THEN <<[type |-> "modify", path |-> path,
            content |-> Get(find(changes1, path), "content"),
            previousContent |-> Get(find(changes2, path), "content"),
            metadata |-> [diffs |-> diff_main(OrEmpty(Get(find(changes1, path), "content")),
                                              OrEmpty(Get(find(changes2, path), "content")))]]>>
  ELSE <<>>

\* the loop body of compareVersions that reports a modify without the
\* content it replaces
compareAtNoPrevious(changes1, changes2, path) ==
  IF ~HasPath(changes1, path)
    THEN <<[type |-> "add", path |-> path,
            content |-> Get(find(changes2, path), "content")]>>
  ELSE IF ~HasPath(changes2, path)
    THEN <<[type |-> "delete", path |-> path,
            previousContent |-> Get(find(changes1, path), "content")]>>
  ELSE IF Get(find(changes1, path), "content") # Get(find(changes2, path), "content")
    THEN <<[type |-> "modify", path |-> path,
            content |-> Get(find(changes2, path), "content"),
            metadata |-> [diffs |-> diff_main(OrEmpty(Get(find(changes1, path), "content")),
                                              OrEmpty(Get(find(changes2, path), "content")))]]>>
  ELSE <<>>

\* the loop body of compareVersions: the changes pushed for one path
compareAt(changes1, changes2, path) ==
  IF ~HasPath(changes1, path)
    THEN <<[type |-> "add", path |-> path,
            content |-> Get(find(changes2, path), "content")]>>
  ELSE IF ~HasPath(changes2, path)
    THEN <<[type |-> "delete", path |-> path,
            previousContent |-> Get(find(changes1, path), "content")]>>
  ELSE IF Get(find(changes1, path), "content") # Get(find(changes2, path), "content")
    THEN <<[type |-> "modify", path |-> path,
            content |-> Get(find(changes2, path), "content"),
            previousContent |-> Get(find(changes1, path), "content"),
            metadata |-> [diffs |-> diff_main(OrEmpty(Get(find(changes1, path), "content")),
                                              OrEmpty(Get(find(changes2, path), "content")))]]>>
  ELSE <<>>

RECURSIVE compareOver(_, _, _)
compareOver(changes1, changes2, paths) ==
  IF paths = <<>> THEN <<>>
  ELSE compareAt(changes1, changes2, Head(paths))
       \o compareOver(changes1, changes2, Tail(paths))

\* compareVersions, once both versions are there
compareVersions(version1, version2) ==
  compareOver(version1.changes, version2.changes,
              SetOrder(PathsOf(version1.changes) \o PathsOf(version2.changes)))

\* the inverse of a change that leaves a modify as it is
inverseChangeModifyKept(change) ==
  IF change.type = "add"
    THEN [type |-> "delete", path |-> change.path,
          previousContent |-> Get(change, "content")]
  ELSE IF change.type = "delete"
    THEN [type |-> "add", path |-> change.path,
          content |-> Get(change, "previousContent")]
  ELSE [type |-> "modify", path |-> change.path,
        content |-> Get(change, "content"),
        previousContent |-> Get(change, "previousContent")]

\* the switch of revertToVersion: the inverse of one change
inverseChange(change) ==
  IF change.type = "add"
    THEN [type |-> "delete", path |-> change.path,
          previousContent |-> Get(change, "content")]
  ELSE IF change.type = "delete"
    THEN [type |-> "add", path |-> change.path,
          content |-> Get(change, "previousContent")]
  ELSE [type |-> "modify", path |-> change.path,
        content |-> Get(change, "previousContent"),
        previousContent |-> Get(change, "content")]

inverseChanges(version) ==
  [i \in DOMAIN version.changes |-> inverseChange(version.changes[i])]

\* ------------------------------------------------ calls of the store ----

\* at most this many calls of the VersionManager in one behaviour
MaxCalls == 3

\* the clock of the version store runs from 0 to this
MaxTime == 1

VersionsNotFound == "One or both versions not found"
VersionNotFound  == "Version not found"
BaseNotFound     == "Base version not found"
BranchNotFound(branchName) ==
  IF branchName = "main" THEN "Branch main not found" ELSE "Branch dev not found"
LatestNotFound   == "Source or target version not found"

BranchNames == {"main", "dev"}
Tags == {"t1", "t2"}

\* an id no version has
StaleId == 0

\* createBranch called without a fromVersionId
NoVersionId == -1

\* the ids a caller can name: those of the versions stored, and a stale one
KnownIds == (DOMAIN assetVersion) \cup {StaleId}

\* the change lists handed to createVersion while the store is exercised
SomeChangeLists ==
  {<<[type |-> "add", path |-> "/a.txt", content |-> "hello"]>>,
   <<[type |-> "modify", path |-> "/a.txt", content |-> "world", previousContent |-> "hello"],
     [type |-> "add", path |-> "/b.txt"]>>}

registry == <<connStatus, userId, sessionId, sessions, operations, assetLock,
              assetHistory, pending, opCount, emitted, outcome, events, inherited>>

\* getVersions whose where clause leaves out the timestamp range
getVersionsAnyDate(assetId, fromDate, tags) ==
  {id \in DOMAIN assetVersion :
     /\ assetVersion[id].assetId = assetId
     /\ \A t \in tags : \E i \in DOMAIN assetVersion[id].tags : assetVersion[id].tags[i] = t}

\* findMany of getVersions: the ids of the asset's versions from fromDate on
\* that carry every one of the tags
getVersions(assetId, fromDate, tags) ==
  {id \in DOMAIN assetVersion :
     /\ assetVersion[id].assetId = assetId
     /\ assetVersion[id].timestamp >= fromDate
     /\ \A t \in tags : \E i \in DOMAIN assetVersion[id].tags : assetVersion[id].tags[i] = t}

\* orderBy timestamp asc: the ids that may come first
FirstOldest(ids) ==
  {id \in ids : \A other \in ids : assetVersion[other].timestamp >= assetVersion[id].timestamp}

\* the ids that may come first without the orderBy
FirstUnordered(ids) == ids

\* orderBy timestamp desc: the ids that may come first
First(ids) ==
  {id \in ids : \A other \in ids : assetVersion[other].timestamp <= assetVersion[id].timestamp}

\* the calls in flight other than r
Rest(r) == vpending (-) SetToBag({r})

\* a call made now suspends at its first await
Start(cont) == vpending' = vpending (+) SetToBag({cont})

\* the call resumed as r suspends again
Continue(r, cont) == vpending' = Rest(r) (+) SetToBag({cont})

\* the call resumed as r returns or throws
Settle(r, kind, status, value) ==
  /\ vpending' = Rest(r)
  /\ vresult' = [kind |-> kind, status |-> status, value |-> value]

\* a call is made
Called == vcalls < MaxCalls /\ vcalls' = vcalls + 1

\* createVersion that takes the id handed out last instead of a fresh one
createVersionReusedId(rest, kind, assetId, uid, changes, description, tags) ==
  /\ uuids' = uuids + 1
  /\ vpending' = rest (+) SetToBag({[kind |-> kind, step |-> "create",
                    version |-> [id |-> IF uuids = 0 THEN 1 ELSE uuids,
                                 assetId |-> assetId, userId |-> uid,
                                 timestamp |-> now, changes |-> changes,
                                 metadata |-> EmptyMap, tags |-> tags,
                                 description |-> description]]})

\* createVersion up to its await: the version object and the create issued
createVersion(rest, kind, assetId, uid, changes, description, tags) ==
  /\ uuids' = uuids + 1
  /\ vpending' = rest (+) SetToBag({[kind |-> kind, step |-> "create",
                    version |-> [id |-> uuids + 1, assetId |-> assetId, userId |-> uid,
                                 timestamp |-> now, changes |-> changes,
                                 metadata |-> EmptyMap, tags |-> tags,
                                 description |-> description]]})

CreateVersion(assetId, uid, changes, description, tags) ==
  /\ Called
  /\ createVersion(vpending, "createVersion", assetId, uid, changes, description, tags)
  /\ UNCHANGED <<assetVersion, assetBranch, vresult>>

\* assetVersion.create settles: the row holds the changes as JSON text
CreateVersionResume(r, ok) ==
  /\ r.step = "create"
  /\ IF ok
       THEN /\ assetVersion' = Put(assetVersion, r.version.id,
                                   [r.version EXCEPT
                                      !.changes = JSONstringify(@)])
            /\ Settle(r, r.kind, "ok", r.version)
       ELSE /\ Settle(r, r.kind, PersistenceFailure, <<>>)
            /\ UNCHANGED assetVersion
  /\ UNCHANGED <<assetBranch, uuids, vcalls>>

CompareVersions(versionId1, versionId2) ==
  /\ Called
  /\ Start([kind |-> "compareVersions", step |-> "read",
                          versionId1 |-> versionId1, versionId2 |-> versionId2])
  /\ UNCHANGED <<assetVersion, assetBranch, vresult, uuids>>

\* both findUnique of compareVersions have settled
CompareVersionsResume(r, ok) ==
  /\ r.kind = "compareVersions"
  /\ LET version1 == getVersion(r.versionId1)
         version2 == getVersion(r.versionId2)
     IN IF ~ok THEN Settle(r, "compareVersions", PersistenceFailure, <<>>)
        ELSE IF version1 = Null \/ version2 = Null
          THEN Settle(r, "compareVersions", VersionsNotFound, <<>>)
        ELSE Settle(r, "compareVersions", "ok", compareVersions(version1, version2))
  /\ UNCHANGED <<assetVersion, assetBranch, uuids, vcalls>>

RevertToVersion(assetId, versionId, uid) ==
  /\ Called
  /\ Start([kind |-> "revertToVersion", step |-> "read",
                          assetId |-> assetId, versionId |-> versionId, userId |-> uid])
  /\ UNCHANGED <<assetVersion, assetBranch, vresult, uuids>>

\* getVersion of revertToVersion has settled
RevertToVersionResume(r, ok) ==
  /\ r.kind = "revertToVersion"
  /\ r.step = "read"
  /\ LET cont    == r
         version == getVersion(cont.versionId)
     IN IF ~ok
          THEN Settle(r, "revertToVersion", PersistenceFailure, <<>>) /\ UNCHANGED uuids
        ELSE IF version = Null
          THEN Settle(r, "revertToVersion", VersionNotFound, <<>>) /\ UNCHANGED uuids
        ELSE /\ createVersion(Rest(r), "revertToVersion", cont.assetId, cont.userId,
                              inverseChanges(version),
                              <<"Reverted to version", cont.versionId>>, <<"revert">>)
             /\ UNCHANGED vresult
  /\ UNCHANGED <<assetVersion, assetBranch, vcalls>>

CreateBranch(assetId, branchName, fromVersionId) ==
  /\ Called
  /\ Start([kind |-> "createBranch", step |-> "read", assetId |-> assetId,
                          name |-> branchName, fromVersionId |-> fromVersionId])
  /\ UNCHANGED <<assetVersion, assetBranch, vresult, uuids>>

\* the base version has been looked up: the version named, or with no
\* fromVersionId the first of getVersions(assetId, {limit: 1})
CreateBranchResume(r, ok) ==
  /\ r.kind = "createBranch"
  /\ r.step = "read"
  /\ LET cont  == r
         bases == IF cont.fromVersionId # NoVersionId
                    THEN {cont.fromVersionId} \cap DOMAIN assetVersion
                    ELSE First(getVersions(cont.assetId, 0, {}))
     IN IF ~ok THEN Settle(r, "createBranch", PersistenceFailure, <<>>)
        ELSE IF bases = {} THEN Settle(r, "createBranch", BaseNotFound, <<>>)
        ELSE /\ \E base \in bases :
                  Continue(r, [kind |-> "createBranch", step |-> "insert",
                                 row |-> [assetId |-> cont.assetId, name |-> cont.name,
                                          baseVersionId |-> base, createdAt |-> now]])
             /\ UNCHANGED vresult
  /\ UNCHANGED <<assetVersion, assetBranch, uuids, vcalls>>

\* assetBranch.create settles
CreateBranchInsert(r, ok) ==
  /\ r.kind = "createBranch"
  /\ r.step = "insert"
  /\ IF ok
       THEN /\ assetBranch' = assetBranch \cup {r.row}
            /\ Settle(r, "createBranch", "ok", <<>>)
       ELSE /\ Settle(r, "createBranch", PersistenceFailure, <<>>)
            /\ UNCHANGED assetBranch
  /\ UNCHANGED <<assetVersion, uuids, vcalls>>

Sides == {"source", "target"}

Other(side) == IF side = "source" THEN "target" ELSE "source"

MergeBranches(assetId, sourceBranch, targetBranch, uid) ==
  /\ Called
  /\ Start([kind |-> "mergeBranches", step |-> "lists", assetId |-> assetId,
              userId |-> uid,
              names |-> [side \in Sides |->
                          IF side = "source" THEN sourceBranch ELSE targetBranch],
              at |-> [side \in Sides |-> "branch"],
              createdAt |-> [side \in Sides |-> 0],
              latest |-> [side \in Sides |-> StaleId]])
  /\ UNCHANGED <<assetVersion, assetBranch, vresult, uuids>>

\* assetBranch.findFirst of one getVersionsInBranch has settled
MergeBranchesFindBranch(r, side, ok) ==
  /\ r.kind = "mergeBranches"
  /\ r.step = "lists"
  /\ r.at[side] = "branch"
  /\ LET cont     == r
         branches == {b \in assetBranch :
                        b.assetId = cont.assetId /\ b.name = cont.names[side]}
     IN IF ~ok THEN Settle(r, "mergeBranches", PersistenceFailure, <<>>)
        ELSE IF branches = {}
          THEN Settle(r, "mergeBranches", BranchNotFound(cont.names[side]), <<>>)
        ELSE /\ \E branch \in branches :
                  Continue(r, [cont EXCEPT !.at[side] = "versions",
                                             !.createdAt[side] = branch.createdAt])
             /\ UNCHANGED vresult
  /\ UNCHANGED <<assetVersion, assetBranch, uuids, vcalls>>

\* assetVersion.findMany of one getVersionsInBranch has settled; when it is
\* the second of the two, mergeBranches goes on to compareVersions
MergeBranchesFindVersions(r, side, ok) ==
  /\ r.kind = "mergeBranches"
  /\ r.step = "lists"
  /\ r.at[side] = "versions"
  /\ LET cont  == r
         firsts == First(getVersions(cont.assetId, cont.createdAt[side], {}))
         found  == IF firsts = {} THEN {StaleId} ELSE firsts
     IN IF ~ok THEN Settle(r, "mergeBranches", PersistenceFailure, <<>>)
        ELSE IF cont.at[Other(side)] # "done"
          THEN /\ \E id \in found :
                    Continue(r, [cont EXCEPT !.at[side] = "done", !.latest[side] = id])
               /\ UNCHANGED vresult
        ELSE IF firsts = {} \/ cont.latest[Other(side)] = StaleId
          THEN Settle(r, "mergeBranches", LatestNotFound, <<>>)
        ELSE /\ \E id \in found :
                    Continue(r, [cont EXCEPT !.step = "compare", !.at[side] = "done",
                                               !.latest[side] = id])
             /\ UNCHANGED vresult
  /\ UNCHANGED <<assetVersion, assetBranch, uuids, vcalls>>

\* compareVersions inside mergeBranches has settled: the merge is committed
MergeBranchesCompare(r, ok) ==
  /\ r.kind = "mergeBranches"
  /\ r.step = "compare"
  /\ LET cont     == r
         version1 == getVersion(cont.latest["source"])
         version2 == getVersion(cont.latest["target"])
     IN IF ~ok
          THEN Settle(r, "mergeBranches", PersistenceFailure, <<>>) /\ UNCHANGED uuids
        ELSE IF version1 = Null \/ version2 = Null
          THEN Settle(r, "mergeBranches", VersionsNotFound, <<>>) /\ UNCHANGED uuids
        ELSE /\ createVersion(Rest(r), "mergeBranches", cont.assetId, cont.userId,
                              compareVersions(version1, version2),
                              <<"Merged", cont.names["source"], "into", cont.names["target"]>>,
                              <<"merge">>)
             /\ UNCHANGED vresult
  /\ UNCHANGED <<assetVersion, assetBranch, vcalls>>

AddTag(versionId, tag) ==
  /\ Called
  /\ Start([kind |-> "addTag", step |-> "read",
                          versionId |-> versionId, tag |-> tag])
  /\ UNCHANGED <<assetVersion, assetBranch, vresult, uuids>>

\* findUnique of addTag has settled
AddTagResume(r, ok) ==
  /\ r.kind = "addTag"
  /\ r.step = "read"
  /\ IF ~ok THEN Settle(r, "addTag", PersistenceFailure, <<>>)
     ELSE IF r.versionId \notin DOMAIN assetVersion
       THEN Settle(r, "addTag", VersionNotFound, <<>>)
     ELSE /\ Continue(r, [r EXCEPT !.step = "update"])
          /\ UNCHANGED vresult
  /\ UNCHANGED <<assetVersion, assetBranch, uuids, vcalls>>

\* the update of addTag without its where clause: every row gets the tag
AddTagUpdateEveryRow(r, ok) ==
  /\ r.kind = "addTag"
  /\ r.step = "update"
  /\ IF ok
       THEN /\ assetVersion' = [id \in DOMAIN assetVersion |->
                                  [assetVersion[id] EXCEPT !.tags = Append(@, r.tag)]]
            /\ Settle(r, "addTag", "ok", <<>>)
       ELSE /\ Settle(r, "addTag", PersistenceFailure, <<>>)
            /\ UNCHANGED assetVersion
  /\ UNCHANGED <<assetBranch, uuids, vcalls>>

\* update of addTag settles: tags: {push: tag}
AddTagUpdate(r, ok) ==
  /\ r.kind = "addTag"
  /\ r.step = "update"
  /\ IF ok
       THEN /\ assetVersion' = [assetVersion EXCEPT ![r.versionId].tags =
                                  Append(@, r.tag)]
            /\ Settle(r, "addTag", "ok", <<>>)
       ELSE /\ Settle(r, "addTag", PersistenceFailure, <<>>)
            /\ UNCHANGED assetVersion
  /\ UNCHANGED <<assetBranch, uuids, vcalls>>

\* array.filter(t => t !== tag)
RECURSIVE filter(_, _)
filter(tags, tag) ==
  IF tags = <<>> THEN <<>>
  ELSE IF Head(tags) = tag THEN filter(Tail(tags), tag)
  ELSE <<Head(tags)>> \o filter(Tail(tags), tag)

RemoveTag(versionId, tag) ==
  /\ Called
  /\ Start([kind |-> "removeTag", step |-> "read",
                          versionId |-> versionId, tag |-> tag])
  /\ UNCHANGED <<assetVersion, assetBranch, vresult, uuids>>

\* findUnique of removeTag has settled: the tags to write are computed from
\* the row as it was read
RemoveTagResume(r, ok) ==
  /\ r.kind = "removeTag"
  /\ r.step = "read"
  /\ IF ~ok THEN Settle(r, "removeTag", PersistenceFailure, <<>>)
     ELSE IF r.versionId \notin DOMAIN assetVersion
       THEN Settle(r, "removeTag", VersionNotFound, <<>>)
     ELSE /\ Continue(r, [kind |-> "removeTag", step |-> "update",
                            versionId |-> r.versionId, tag |-> r.tag,
                            tags |-> filter(assetVersion[r.versionId].tags,
                                            r.tag)])
          /\ UNCHANGED vresult
  /\ UNCHANGED <<assetVersion, assetBranch, uuids, vcalls>>

\* update of removeTag settles
RemoveTagUpdate(r, ok) ==
  /\ r.kind = "removeTag"
  /\ r.step = "update"
  /\ IF ok
       THEN /\ assetVersion' = [assetVersion EXCEPT ![r.versionId].tags =
                                  r.tags]
            /\ Settle(r, "removeTag", "ok", <<>>)
       ELSE /\ Settle(r, "removeTag", PersistenceFailure, <<>>)
            /\ UNCHANGED assetVersion
  /\ UNCHANGED <<assetBranch, uuids, vcalls>>

\* the clock moves on
VersionTick ==
  /\ now < MaxTime
  /\ now' = now + 1
  /\ UNCHANGED <<registry, vvars>>

Calls == BagToSet(vpending)

\* every call that writes to the store, from the store as constructed;
\* compareVersions only reads and is exercised in DiffSpec
VersionNext ==
  \/ \E ch \in SomeChangeLists :
       CreateVersion("a1", "u1", ch, <<"edit">>, <<>>) /\ UNCHANGED vars
  \/ \E r \in Calls, ok \in BOOLEAN : CreateVersionResume(r, ok) /\ UNCHANGED vars
  \/ \E a \in Assets, id \in KnownIds : RevertToVersion(a, id, "u1") /\ UNCHANGED vars
  \/ \E r \in Calls, ok \in BOOLEAN : RevertToVersionResume(r, ok) /\ UNCHANGED vars
  \/ \E a \in Assets, from \in KnownIds \cup {NoVersionId} :
       CreateBranch(a, "main", from) /\ UNCHANGED vars
  \/ \E r \in Calls, ok \in BOOLEAN : CreateBranchResume(r, ok) /\ UNCHANGED vars
  \/ \E r \in Calls, ok \in BOOLEAN : CreateBranchInsert(r, ok) /\ UNCHANGED vars
  \/ \E source, target \in BranchNames :
       MergeBranches("a1", source, target, "u1") /\ UNCHANGED vars
  \/ \E r \in Calls, side \in Sides, ok \in BOOLEAN :
       MergeBranchesFindBranch(r, side, ok) /\ UNCHANGED vars
  \/ \E r \in Calls, side \in Sides, ok \in BOOLEAN :
       MergeBranchesFindVersions(r, side, ok) /\ UNCHANGED vars
  \/ \E r \in Calls, ok \in BOOLEAN : MergeBranchesCompare(r, ok) /\ UNCHANGED vars
  \/ \E id \in KnownIds : AddTag(id, "t1") /\ UNCHANGED vars
  \/ \E r \in Calls, ok \in BOOLEAN : AddTagResume(r, ok) /\ UNCHANGED vars
  \/ \E r \in Calls, ok \in BOOLEAN : AddTagUpdate(r, ok) /\ UNCHANGED vars
  \/ \E id \in KnownIds, tag \in Tags : RemoveTag(id, tag) /\ UNCHANGED vars
  \/ \E r \in Calls, ok \in BOOLEAN : RemoveTagResume(r, ok) /\ UNCHANGED vars
  \/ \E r \in Calls, ok \in BOOLEAN : RemoveTagUpdate(r, ok) /\ UNCHANGED vars
  \/ VersionTick

VersionSpec == Init /\ [][VersionNext]_<<vars, vvars>>

\* ------------------------------------------------- diffs and inverses ----

\* a version as createVersion stores it
StoredVersion(id, assetId, changes) ==
  [id |-> id, assetId |-> assetId, userId |-> "u1", timestamp |-> 0,
   changes |-> JSONstringify(changes), metadata |-> EmptyMap, tags |-> <<>>,
   description |-> <<"edit">>]

\* the store after two createVersion calls with any two change lists
DiffInit ==
  /\ now = 0
  /\ connStatus = [c \in Conns |-> "open"]
  /\ userId = [c \in Conns |-> None]
  /\ sessionId = [c \in Conns |-> None]
  /\ sessions = EmptyMap
  /\ operations = EmptyMap
  /\ assetLock = EmptyMap
  /\ assetHistory = {}
  /\ pending = EmptyBag
  /\ opCount = 0
  /\ emitted = [a \in Assets |-> <<>>]
  /\ outcome = NoError
  /\ events = 0
  /\ inherited = {}
  /\ \E changes1, changes2 \in ChangeLists :
       assetVersion = Put(Put(EmptyMap, 1, StoredVersion(1, "a1", changes1)),
                          2, StoredVersion(2, "a1", changes2))
  /\ assetBranch = {}
  /\ vpending = EmptyBag
  /\ vresult = NoResult
  /\ uuids = 2
  /\ vcalls = 0

\* one call of compareVersions or revertToVersion on that store
DiffNext ==
  \/ \E id2 \in {2, StaleId} : vcalls = 0 /\ CompareVersions(1, id2) /\ UNCHANGED vars
  \/ \E r \in Calls, ok \in BOOLEAN : CompareVersionsResume(r, ok) /\ UNCHANGED vars
  \/ vcalls = 0 /\ RevertToVersion("a1", 1, "u1") /\ UNCHANGED vars
  \/ \E r \in Calls, ok \in BOOLEAN : RevertToVersionResume(r, ok) /\ UNCHANGED vars
  \/ \E r \in Calls, ok \in BOOLEAN : CreateVersionResume(r, ok) /\ UNCHANGED vars

DiffSpec == DiffInit /\ [][DiffNext]_<<vars, vvars>>

\* -------------------------------------- properties of the version store ----

\* the versions listed for an asset
Listed(assetId) == {id \in DOMAIN assetVersion : assetVersion[id].assetId = assetId}

\* the call suspended as r is resumed by this step
Resumed(r) == CopiesIn(r, vpending') < CopiesIn(r, vpending)

Creating(r) == r.step = "create" /\ Resumed(r)

\* C17: a revert leaves every version there is as it was, the one reverted
\* to included, and every createVersion, revertToVersion or mergeBranches
\* that succeeds makes the asset's list of versions longer by exactly one.
C17_AppendOnly ==
  [][\A r \in Calls :
       /\ (r.kind = "revertToVersion" /\ Resumed(r))
          => \A id \in DOMAIN assetVersion :
               id \in DOMAIN assetVersion' /\ assetVersion'[id] = assetVersion[id]
       /\ (Creating(r) /\ vresult'.status = "ok")
          => /\ Cardinality(Listed(r.version.assetId)') =
                  Cardinality(Listed(r.version.assetId)) + 1
             /\ \A a \in Assets \ {r.version.assetId} : Listed(a)' = Listed(a)]_<<vars, vvars>>

\* C17 witness: a revert has succeeded and its asset lists two versions
C17_Witness ==
  /\ vresult.kind = "revertToVersion"
  /\ vresult.status = "ok"
  /\ Cardinality(Listed(vresult.value.assetId)) = 2
  /\ vresult.value.id \in Listed(vresult.value.assetId)

\* the fields of a row other than its tags
Fixed(row) == [row EXCEPT !.tags = <<>>]

\* C18: every version stays in the store with its id, assetId, changes and
\* timestamp; its tags change only when the update of an addTag or
\* removeTag that names it settles.
C18_VersionsImmutable ==
  [][\A id \in DOMAIN assetVersion :
       /\ id \in DOMAIN assetVersion'
       /\ Fixed(assetVersion'[id]) = Fixed(assetVersion[id])
       /\ assetVersion'[id].tags # assetVersion[id].tags
          => \E r \in Calls :
               /\ r.kind \in {"addTag", "removeTag"}
               /\ r.step = "update"
               /\ Resumed(r)
               /\ r.versionId = id]_<<vars, vvars>>

\* C18 witness: one version has been tagged, another is there untagged
C18_Witness ==
  \E id1, id2 \in DOMAIN assetVersion :
    /\ id1 # id2
    /\ assetVersion[id1].tags = <<"t1">>
    /\ assetVersion[id2].tags = <<>>
    /\ vresult.kind = "addTag"

\* the changes of a stored version
ChangesOf(id) == JSONparse(assetVersion[id].changes)

\* the content a version has for a path: that of its first change there
ContentAt(changes, path) ==
  LET i == CHOOSE i \in DOMAIN changes :
             changes[i].path = path /\ \A j \in DOMAIN changes : changes[j].path = path => i <= j
  IN Get(changes[i], "content")

Touches(changes, path) == \E i \in DOMAIN changes : changes[i].path = path

At(changes, path) == {i \in DOMAIN changes : changes[i].path = path}

\* C19: compareVersions(A, B) holds at most one change per path; for a path
\* only in B an add with B's content, for a path only in A a delete with A's
\* content as previousContent, for a path in both with different contents a
\* modify from A's content to B's, and nothing for any other path.
C19_PathKeyedDiff ==
  (vresult.kind = "compareVersions" /\ vresult.status = "ok") =>
    LET A == ChangesOf(1)
        B == ChangesOf(2)
        R == vresult.value
    IN \A path \in Paths :
         /\ Cardinality(At(R, path)) <= 1
         /\ (~Touches(A, path) /\ Touches(B, path)) =>
              \E i \in At(R, path) :
                /\ R[i].type = "add"
                /\ Get(R[i], "content") = ContentAt(B, path)
         /\ (Touches(A, path) /\ ~Touches(B, path)) =>
              \E i \in At(R, path) :
                /\ R[i].type = "delete"
                /\ Get(R[i], "previousContent") = ContentAt(A, path)
         /\ (Touches(A, path) /\ Touches(B, path)
               /\ ContentAt(A, path) # ContentAt(B, path)) =>
              \E i \in At(R, path) :
                /\ R[i].type = "modify"
                /\ Get(R[i], "content") = ContentAt(B, path)
                /\ Get(R[i], "previousContent") = ContentAt(A, path)
         /\ (Touches(A, path) /\ Touches(B, path)
               /\ ContentAt(A, path) = ContentAt(B, path)) => At(R, path) = {}
         /\ (~Touches(A, path) /\ ~Touches(B, path)) => At(R, path) = {}

\* C19 witness: /a.txt added as hello in A and modified to world in B compares
\* as one modify from hello to world
C19_Witness ==
  /\ vresult.kind = "compareVersions"
  /\ vresult.status = "ok"
  /\ ChangesOf(1) = <<[type |-> "add", path |-> "/a.txt", content |-> "hello"]>>
  /\ ChangesOf(2) = <<[type |-> "modify", path |-> "/a.txt", content |-> "world",
                       previousContent |-> "hello"]>>
  /\ Len(vresult.value) = 1
  /\ vresult.value[1].type = "modify"
  /\ vresult.value[1].content = "world"
  /\ vresult.value[1].previousContent = "hello"

\* C20: the version a revert to V commits has one change per change of V, in
\* V's order and on V's paths: a delete with V's content as previousContent
\* for an add, an add with V's previousContent as content for a delete, a
\* modify with the two contents exchanged for a modify; it is tagged revert
\* and its description names V.
C20_RevertInverts ==
  (vresult.kind = "revertToVersion" /\ vresult.status = "ok") =>
    /\ vresult.value.id \in DOMAIN assetVersion
    /\ LET V   == ChangesOf(1)
           new == assetVersion[vresult.value.id]
           N   == JSONparse(new.changes)
       IN /\ new.tags = <<"revert">>
          /\ new.description = <<"Reverted to version", 1>>
          /\ Len(N) = Len(V)
          /\ \A i \in DOMAIN V :
               /\ N[i].path = V[i].path
               /\ V[i].type = "add" =>
                    /\ N[i].type = "delete"
                    /\ Get(N[i], "previousContent") = Get(V[i], "content")
                    /\ Get(N[i], "content") = Undefined
               /\ V[i].type = "delete" =>
                    /\ N[i].type = "add"
                    /\ Get(N[i], "content") = Get(V[i], "previousContent")
                    /\ Get(N[i], "previousContent") = Undefined
               /\ V[i].type = "modify" =>
                    /\ N[i].type = "modify"
                    /\ Get(N[i], "content") = Get(V[i], "previousContent")
                    /\ Get(N[i], "previousContent") = Get(V[i], "content")

\* C20 witness: the revert to a version that added /a.txt as hello has
\* committed a version that deletes /a.txt with previousContent hello
C20_Witness ==
  /\ vresult.kind = "revertToVersion"
  /\ vresult.status = "ok"
  /\ ChangesOf(1) = <<[type |-> "add", path |-> "/a.txt", content |-> "hello"]>>
  /\ 3 \in DOMAIN assetVersion
  /\ ChangesOf(3) = <<[type |-> "delete", path |-> "/a.txt", previousContent |-> "hello"]>>
  /\ assetVersion[3].tags = <<"revert">>

\* how often a tag occurs among the tags of a version
Occurrences(tags, tag) == Cardinality({i \in DOMAIN tags : tags[i] = tag})

\* C21: whatever addTag calls have been made, no version carries a tag more
\* than once.
C21_TagOnce ==
  \A id \in DOMAIN assetVersion :
    \A tag \in Tags : Occurrences(assetVersion[id].tags, tag) <= 1

\* ------------------------------------------- calls on a store in use ----

\* the registry as constructed
RegistryAtRest ==
  /\ connStatus = [c \in Conns |-> "open"]
  /\ userId = [c \in Conns |-> None]
  /\ sessionId = [c \in Conns |-> None]
  /\ sessions = EmptyMap
  /\ operations = EmptyMap
  /\ assetLock = EmptyMap
  /\ assetHistory = {}
  /\ pending = EmptyBag
  /\ opCount = 0
  /\ emitted = [a \in Assets |-> <<>>]
  /\ outcome = NoError
  /\ events = 0
  /\ inherited = {}

\* the rows createBranch can have written for a name: the base is a version
\* that was there, so not younger than the branch
BranchRows(name, versions) ==
  UNION {{[assetId |-> "a1", name |-> name, baseVersionId |-> base, createdAt |-> at] :
            at \in {t \in 0..MaxTime : versions[base].timestamp <= t}} :
         base \in DOMAIN versions}

\* the store after two createVersion calls on a1, the second not earlier
\* than the first, a createBranch for main and possibly one for dev
StoreInit ==
  /\ RegistryAtRest
  /\ \E changes1, changes2 \in SomeChangeLists, t1, t2 \in 0..MaxTime :
       /\ t1 <= t2
       /\ assetVersion =
            Put(Put(EmptyMap, 1, [StoredVersion(1, "a1", changes1) EXCEPT !.timestamp = t1]),
                2, [StoredVersion(2, "a1", changes2) EXCEPT !.timestamp = t2])
  /\ \E main \in BranchRows("main", assetVersion) :
       \E devs \in {{}} \cup {{dev} : dev \in BranchRows("dev", assetVersion)} :
         assetBranch = {main} \cup devs
  /\ now \in 0..MaxTime
  /\ \A id \in DOMAIN assetVersion : assetVersion[id].timestamp <= now
  /\ \A branch \in assetBranch : branch.createdAt <= now
  /\ vpending = EmptyBag
  /\ vresult = NoResult
  /\ uuids = 2
  /\ vcalls = 0

\* one call on that store, and one createVersion that may fall before, into
\* or after it
StoreNext ==
  \/ \E source, target \in BranchNames :
       vcalls = 0 /\ MergeBranches("a1", source, target, "u1") /\ UNCHANGED vars
  \/ \E r \in Calls, side \in Sides, ok \in BOOLEAN :
       MergeBranchesFindBranch(r, side, ok) /\ UNCHANGED vars
  \/ \E r \in Calls, side \in Sides, ok \in BOOLEAN :
       MergeBranchesFindVersions(r, side, ok) /\ UNCHANGED vars
  \/ \E r \in Calls, ok \in BOOLEAN : MergeBranchesCompare(r, ok) /\ UNCHANGED vars
  \/ \E id1, id2 \in KnownIds :
       vcalls = 0 /\ CompareVersions(id1, id2) /\ UNCHANGED vars
  \/ \E r \in Calls, ok \in BOOLEAN : CompareVersionsResume(r, ok) /\ UNCHANGED vars
  \/ \E a \in Assets, id \in KnownIds :
       vcalls = 0 /\ RevertToVersion(a, id, "u1") /\ UNCHANGED vars
  \/ \E r \in Calls, ok \in BOOLEAN : RevertToVersionResume(r, ok) /\ UNCHANGED vars
  \/ \E a \in Assets, from \in KnownIds \cup {NoVersionId} :
       vcalls = 0 /\ CreateBranch(a, "dev", from) /\ UNCHANGED vars
  \/ \E r \in Calls, ok \in BOOLEAN : CreateBranchResume(r, ok) /\ UNCHANGED vars
  \/ \E r \in Calls, ok \in BOOLEAN : CreateBranchInsert(r, ok) /\ UNCHANGED vars
  \/ \E id \in KnownIds : vcalls = 0 /\ AddTag(id, "t1") /\ UNCHANGED vars
  \/ \E r \in Calls, ok \in BOOLEAN : AddTagResume(r, ok) /\ UNCHANGED vars
  \/ \E r \in Calls, ok \in BOOLEAN : AddTagUpdate(r, ok) /\ UNCHANGED vars
  \/ \E id \in KnownIds : vcalls = 0 /\ RemoveTag(id, "t1") /\ UNCHANGED vars
  \/ \E r \in Calls, ok \in BOOLEAN : RemoveTagResume(r, ok) /\ UNCHANGED vars
  \/ \E r \in Calls, ok \in BOOLEAN : RemoveTagUpdate(r, ok) /\ UNCHANGED vars
  \/ \E ch \in SomeChangeLists :
       vcalls = 1 /\ CreateVersion("a1", "u1", ch, <<"edit">>, <<>>) /\ UNCHANGED vars
  \/ \E r \in Calls, ok \in BOOLEAN : CreateVersionResume(r, ok) /\ UNCHANGED vars
  \/ VersionTick

StoreSpec == StoreInit /\ [][StoreNext]_<<vars, vvars>>

\* the versions of an asset that are not older than a date
Scope(assetId, from) ==
  {id \in DOMAIN assetVersion :
     assetVersion[id].assetId = assetId /\ assetVersion[id].timestamp >= from}

\* those of some versions that no other of them is younger than
Newest(ids) ==
  {id \in ids : \A other \in ids : assetVersion[other].timestamp <= assetVersion[id].timestamp}

BranchesNamed(assetId, name) ==
  {b \in assetBranch : b.assetId = assetId /\ b.name = name}

\* the call resumed as r suspends again as n in this step
Becomes(r, n) == Resumed(r) /\ CopiesIn(n, vpending') > CopiesIn(n, vpending)

\* the call resumed as r returns or throws in this step
Settles(r) == Resumed(r) /\ vpending' = Rest(r)

\* C22: a mergeBranches goes on from a branch lookup only with a row of
\* that name, takes for each branch a newest version of the branch's scope
\* (timestamp >= createdAt), and commits the compareVersions of the two as
\* one version tagged merge; it throws BranchNotFound only for a name
\* without a row and VersionNotFound only with an empty scope, never gets
\* to compare with an empty scope, and creates no version when it throws.
C22_Merge ==
  [][\A r \in Calls : r.kind = "mergeBranches" =>
       /\ (Settles(r) /\ r.step # "create") =>
            /\ assetVersion' = assetVersion
            /\ uuids' = uuids
            /\ vresult'.status \in
                 {PersistenceFailure, LatestNotFound} \cup
                 {BranchNotFound(r.names[side]) : side \in Sides}
            /\ (vresult'.status \notin {PersistenceFailure, LatestNotFound}) =>
                 \E side \in Sides :
                   /\ r.at[side] = "branch"
                   /\ vresult'.status = BranchNotFound(r.names[side])
                   /\ BranchesNamed(r.assetId, r.names[side]) = {}
            /\ vresult'.status = LatestNotFound =>
                 \E side \in Sides :
                   \/ r.at[side] = "versions" /\ Scope(r.assetId, r.createdAt[side]) = {}
                   \/ r.at[side] = "done" /\ r.latest[side] = StaleId
       /\ \A n \in BagToSet(vpending') : (Becomes(r, n) /\ r.step = "lists") =>
            /\ \A side \in Sides :
                 /\ (r.at[side] = "branch" /\ n.at[side] # "branch") =>
                      \E b \in BranchesNamed(r.assetId, r.names[side]) :
                        n.createdAt[side] = b.createdAt
                 /\ (r.at[side] = "versions" /\ n.at[side] = "done") =>
                      IF Scope(r.assetId, r.createdAt[side]) = {}
                        THEN n.latest[side] = StaleId /\ n.step = "lists"
                        ELSE n.latest[side] \in Newest(Scope(r.assetId, r.createdAt[side]))
            /\ n.step = "lists" => \E side \in Sides : n.at[side] # "done"
            /\ n.step = "compare" => \A side \in Sides : n.latest[side] \in DOMAIN assetVersion
       /\ \A n \in BagToSet(vpending') : (Becomes(r, n) /\ r.step = "compare") =>
            /\ n.step = "create"
            /\ n.version.assetId = r.assetId
            /\ n.version.tags = <<"merge">>
            /\ n.version.id \notin DOMAIN assetVersion
            /\ n.version.changes = compareVersions(getVersion(r.latest["source"]),
                                                   getVersion(r.latest["target"]))
       /\ (Settles(r) /\ r.step = "create") =>
            IF vresult'.status = "ok"
              THEN /\ DOMAIN assetVersion' = (DOMAIN assetVersion) \cup {r.version.id}
                   /\ assetVersion'[r.version.id].tags = <<"merge">>
                   /\ JSONparse(assetVersion'[r.version.id].changes) =
                        JSONparse(JSONstringify(r.version.changes))
                   /\ \A id \in DOMAIN assetVersion : assetVersion'[id] = assetVersion[id]
              ELSE assetVersion' = assetVersion]_<<vars, vvars>>

\* C22 witness: a merge has committed a version tagged merge that holds a
\* change
C22_Witness ==
  /\ vresult.kind = "mergeBranches"
  /\ vresult.status = "ok"
  /\ vresult.value.id \in DOMAIN assetVersion
  /\ assetVersion[vresult.value.id].tags = <<"merge">>
  /\ assetVersion[vresult.value.id].changes # <<>>

\* the version ids a call suspended at its lookup has been given
IdsOf(r) ==
  IF r.kind = "compareVersions" THEN {r.versionId1, r.versionId2} ELSE {r.versionId}

LooksUp(r) ==
  \/ r.kind = "compareVersions"
  \/ r.kind \in {"revertToVersion", "addTag", "removeTag"} /\ r.step = "read"

\* C23: a compareVersions, revertToVersion, addTag or removeTag whose lookup
\* is answered for an id without a row throws its version-not-found error at
\* that step (or the error of the lookup itself), and the step leaves the
\* versions, their tags, the branches and the ids handed out as they were.
C23_VersionNotFound ==
  [][\A r \in Calls :
       (LooksUp(r) /\ Resumed(r) /\ IdsOf(r) \ DOMAIN assetVersion # {}) =>
         /\ Settles(r)
         /\ vresult'.kind = r.kind
         /\ vresult'.status \in
              {PersistenceFailure,
               IF r.kind = "compareVersions" THEN VersionsNotFound ELSE VersionNotFound}
         /\ vresult'.value = <<>>
         /\ assetVersion' = assetVersion
         /\ assetBranch' = assetBranch
         /\ uuids' = uuids]_<<vars, vvars>>

C23_Witness ==
  /\ vresult.kind \in {"compareVersions", "revertToVersion", "addTag", "removeTag"}
  /\ vresult.status \in {VersionsNotFound, VersionNotFound}
  /\ DOMAIN assetVersion # {}

\* C24: for every path that versions A and B both have, the change that
\* compareVersions(A, B) holds for it, inverted as revertToVersion inverts a
\* change, has A's content for the path as its content; and where the
\* comparison holds no change for such a path, B's content is A's.
C24_CompareThenInverse ==
  (vresult.kind = "compareVersions" /\ vresult.status = "ok") =>
    LET A == ChangesOf(1)
        B == ChangesOf(2)
        R == vresult.value
    IN \A path \in Paths :
         (Touches(A, path) /\ Touches(B, path)) =>
           /\ \A i \in At(R, path) :
                Get(inverseChange(R[i]), "content") = ContentAt(A, path)
           /\ At(R, path) = {} => ContentAt(B, path) = ContentAt(A, path)

\* C24 witness: a comparison with a change for one shared path, whose
\* inverse carries A's content, and none for another
C24_Witness ==
  /\ vresult.kind = "compareVersions"
  /\ vresult.status = "ok"
  /\ \E path, other \in Paths :
       /\ Touches(ChangesOf(1), path) /\ Touches(ChangesOf(2), path)
       /\ Touches(ChangesOf(1), other) /\ Touches(ChangesOf(2), other)
       /\ At(vresult.value, other) = {}
       /\ \E i \in At(vresult.value, path) :
            /\ Get(inverseChange(vresult.value[i]), "content") = ContentAt(ChangesOf(1), path)
            /\ ContentAt(ChangesOf(1), path) # Undefined
            /\ ContentAt(ChangesOf(2), path) # ContentAt(ChangesOf(1), path)

\* C25: a createBranch without fromVersionId whose lookup is answered goes
\* on to insert a row for its asset and name whose baseVersionId is a version
\* of the asset that none is younger than, and throws instead when the asset
\* has no version; with a fromVersionId that has no row it throws; a
\* createBranch that throws leaves the branches as they were, and one that
\* returns has added its row and nothing else.
C25_DefaultBase ==
  [][\A r \in Calls : (r.kind = "createBranch" /\ Resumed(r)) =>
       /\ r.step = "read" =>
            /\ assetBranch' = assetBranch
            /\ \A n \in BagToSet(vpending') : Becomes(r, n) =>
                 /\ n.kind = "createBranch"
                 /\ n.step = "insert"
                 /\ n.row.assetId = r.assetId
                 /\ n.row.name = r.name
                 /\ n.row.createdAt = now
                 /\ IF r.fromVersionId = NoVersionId
                      THEN n.row.baseVersionId \in Newest(Listed(r.assetId))
                      ELSE n.row.baseVersionId = r.fromVersionId
            /\ (\/ r.fromVersionId = NoVersionId /\ Listed(r.assetId) = {}
                \/ r.fromVersionId # NoVersionId /\ r.fromVersionId \notin DOMAIN assetVersion)
                 => /\ Settles(r)
                    /\ vresult'.kind = "createBranch"
                    /\ vresult'.status \in {BaseNotFound, PersistenceFailure}
            /\ (Settles(r) /\ vresult'.status = BaseNotFound) =>
                 IF r.fromVersionId = NoVersionId THEN Listed(r.assetId) = {}
                 ELSE r.fromVersionId \notin DOMAIN assetVersion
       /\ r.step = "insert" =>
            /\ Settles(r)
            /\ assetBranch' = IF vresult'.status = "ok" THEN assetBranch \cup {r.row}
                              ELSE assetBranch]_<<vars, vvars>>

\* C25 witness: a createBranch has returned, and the branches named dev all
\* have the younger of two versions of different age as their base
C25_Witness ==
  /\ vresult.kind = "createBranch"
  /\ vresult.status = "ok"
  /\ assetVersion[1].timestamp < assetVersion[2].timestamp
  /\ BranchesNamed("a1", "dev") # {}
  /\ \A b \in BranchesNamed("a1", "dev") : b.baseVersionId = 2 /\ b.createdAt = now

\* the versions of a1 other than the one the merge has committed
Merged == Listed("a1") \ {vresult.value.id}

\* a mergeBranches has returned and no other call has been made
MergedAlone ==
  /\ vresult.kind = "mergeBranches"
  /\ vresult.status = "ok"
  /\ vcalls = 1

\* C26 as stated: with no version created while the call runs, the version a
\* mergeBranches commits has no changes.
C26_MergeEmpty ==
  MergedAlone => assetVersion[vresult.value.id].changes = JSONstringify(<<>>)

\* C26: with no version created while the call runs, the version a
\* mergeBranches commits compares two versions that both carry the asset's
\* largest timestamp; it has no changes when one version alone carries that
\* timestamp.
C26_MergeOfNewest ==
  MergedAlone =>
    /\ \E s, t \in Newest(Merged) :
         assetVersion[vresult.value.id].changes =
           JSONstringify(compareVersions(getVersion(s), getVersion(t)))
    /\ Cardinality(Newest(Merged)) = 1 =>
         assetVersion[vresult.value.id].changes = JSONstringify(<<>>)

\* C26 witness: a merge of two versions of different age and different
\* changes has returned with no changes
C26_Witness ==
  /\ MergedAlone
  /\ assetVersion[1].timestamp < assetVersion[2].timestamp
  /\ assetVersion[1].changes # assetVersion[2].changes
  /\ BranchesNamed("a1", "dev") # {}
  /\ assetVersion[vresult.value.id].changes = JSONstringify(<<>>)

\* C27: the write of a removeTag(v, t2) takes no other tag t1 from v: an
\* addTag(v, t1) that ran while the removeTag was between its read and its
\* write keeps its tag on v.
C27_TagsNotLost ==
  [][\A r \in Calls : (r.kind = "removeTag" /\ r.step = "update" /\ Resumed(r)) =>
       \A tag \in Tags \ {r.tag} :
         Occurrences(assetVersion'[r.versionId].tags, tag) >=
           Occurrences(assetVersion[r.versionId].tags, tag)]_<<vars, vvars>>

\* C28: every branch has as its base a version there is of the branch's own
\* asset, and every version committed by a revert inverts a version of its
\* own asset.
C28_OwnAsset ==
  /\ \A b \in assetBranch :
       /\ b.baseVersionId \in DOMAIN assetVersion
       /\ assetVersion[b.baseVersionId].assetId = b.assetId
  /\ \A id \in DOMAIN assetVersion : \A of \in DOMAIN assetVersion :
       assetVersion[id].description = <<"Reverted to version", of>> =>
         assetVersion[of].assetId = assetVersion[id].assetId

\* ------------------------------------------------- the cleanup pass ----

\* cleanup(), up to `await this.prisma.assetLock.deleteMany`; the date of
\* the where clause is taken here
Cleanup ==
  /\ \A r \in BagToSet(pending) : r.kind # "cleanup"
  /\ pending' = Await(Cont("cleanup", None, None, None, NoOp, now))
  /\ UNCHANGED <<now, connStatus, userId, sessionId, sessions, operations, assetLock,
                 assetHistory, opCount, emitted, outcome, events, inherited>>

\* the cleanup that discards the sessions that have users
cleanupSessionsOccupied == {sid \in DOMAIN sessions : Len(sessions[sid].users) = 0}

\* the sessions cleanup keeps: those with a user
cleanupSessions == {sid \in DOMAIN sessions : Len(sessions[sid].users) # 0}

\* cleanup(), from the end of deleteMany: the rows with expiresAt before the
\* date are gone, and the empty sessions are discarded with their buffers; a
\* rejected deleteMany ends the pass
CleanupResume(r, ok) ==
  /\ r \in BagToSet(pending) /\ r.kind = "cleanup"
  /\ pending' = Resume(r)
  /\ IF ok
       THEN LET kept == {a \in DOMAIN assetLock : ~(assetLock[a].expiresAt < r.until)}
            IN /\ assetLock' = [a \in kept |-> assetLock[a]]
               /\ inherited' = inherited \cap kept
               /\ sessions' = [sid \in cleanupSessions |-> sessions[sid]]
               /\ operations' = [sid \in (DOMAIN operations) \cap cleanupSessions |->
                                  operations[sid]]
       ELSE UNCHANGED <<assetLock, inherited, sessions, operations>>
  /\ UNCHANGED <<now, connStatus, userId, sessionId, assetHistory, opCount, emitted,
                 outcome, events>>

\* the gateway on one asset and with users that exist, with cleanup called at
\* any time
CleanupNext ==
  \/ \E c \in Conns, u \in Users : Join(c, u, "a1") /\ UNCHANGED vvars
  \/ \E r \in BagToSet(pending), ok \in BOOLEAN : JoinResume(r, ok) /\ UNCHANGED vvars
  \/ \E c \in Conns : Operation(c) /\ UNCHANGED vvars
  \/ \E r \in BagToSet(pending), ok \in BOOLEAN : OperationResume(r, ok) /\ UNCHANGED vvars
  \/ \E c \in Conns : RequestLock(c) /\ UNCHANGED vvars
  \/ \E r \in BagToSet(pending), ok \in BOOLEAN : RequestLockResume(r, ok) /\ UNCHANGED vvars
  \/ \E c \in Conns : ReleaseLock(c) /\ UNCHANGED vvars
  \/ \E r \in BagToSet(pending), ok \in BOOLEAN : ReleaseLockResume(r, ok) /\ UNCHANGED vvars
  \/ \E c \in Conns : Disconnect(c) /\ UNCHANGED vvars
  \/ \E t \in Times : Tick(t) /\ UNCHANGED vvars
  \/ Cleanup /\ UNCHANGED vvars
  \/ \E r \in BagToSet(pending), ok \in BOOLEAN : CleanupResume(r, ok) /\ UNCHANGED vvars

CleanupSpec == Init /\ [][CleanupNext]_<<vars, vvars>>

\* ------------------------------------------- leaving and the registry ----

\* the holder of the session's unexpired lock is no member of the session
HolderGone(sid) ==
  /\ ActiveHolder(sid) # None
  /\ \A i \in DOMAIN sessions[sid].users : sessions[sid].users[i].id # ActiveHolder(sid)

\* C29: a disconnect that leaves the socket's session in place leaves the
\* session's lock as it was; and while the holder of an unexpired lock is no
\* longer a member, an operation or a request-lock of another user in the
\* session is answered with LockConflict, comes to nothing and leaves the
\* lock as it was.
C29_LeaveKeepsLock ==
  [][\A c \in Conns :
       /\ (/\ connStatus[c] = "open" /\ connStatus'[c] = "closed"
           /\ sessionId[c] \in DOMAIN sessions
           /\ sessionId[c] \in DOMAIN sessions')
          => sessions'[sessionId[c]].locked = sessions[sessionId[c]].locked
       /\ (/\ Operation(c) \/ RequestLock(c)
           /\ Ready(c)
           /\ HolderGone(sessionId[c])
           /\ ActiveHolder(sessionId[c]) # userId[c])
          => /\ outcome'.conn = c
             /\ outcome'.message = LockConflict
             /\ sessions' = sessions
             /\ operations' = operations
             /\ pending' = pending
             /\ emitted' = emitted]_vars

\* C29 witness: a member has just been refused while the holder of the
\* unexpired lock, whose socket is closed, is no longer in the session
C29_Witness ==
  \E c, d \in Conns :
    /\ outcome.conn = c
    /\ outcome.message = LockConflict
    /\ Ready(c)
    /\ HolderGone(sessionId[c])
    /\ connStatus[d] = "closed"
    /\ userId[d] = ActiveHolder(sessionId[c])
    /\ sessionId[d] = sessionId[c]
    /\ HasUser(sessions[sessionId[c]], userId[c])

\* C30: after every step each live session has a user and the operation
\* buffers are those of the live sessions; so a cleanup pass that gets to its
\* loop discards no session and no buffer.
C30_NoEmptySession ==
  [][/\ \A sid \in DOMAIN sessions' : Len(sessions'[sid].users) >= 1
     /\ DOMAIN operations' = DOMAIN sessions'
     /\ \A r \in BagToSet(pending) :
          (r.kind = "cleanup" /\ pending' = Resume(r)) =>
            /\ sessions' = sessions
            /\ operations' = operations]_vars

\* C30 witness: a cleanup pass is under way on a session that one of two
\* users has left, with operations in its buffer
C30_Witness ==
  /\ \E r \in BagToSet(pending) : r.kind = "cleanup"
  /\ \E c \in Conns : connStatus[c] = "closed" /\ Ready(c)
  /\ "a1" \in DOMAIN sessions
  /\ Len(sessions["a1"].users) = 1
  /\ "a1" \in DOMAIN operations
  /\ Len(operations["a1"]) >= 1

====
